---- MODULE Spec2Model ----
(***************************************************************************)
(* AS3: validation of a decoded document (AS3Data) against a compiled     *)
(* schema (AS3Validator), rust/src/validator.rs.                           *)
(*                                                                         *)
(* Representation.                                                         *)
(*  - A Rust String is a sequence of characters, each a one-token TLA+     *)
(*    string; push_str is \o.  A character occupies Utf8Len(c) bytes.      *)
(*  - Option<T> is <<>> (None) or <<v>> (Some(v)).                         *)
(*  - A HashMap<String, V> is the sequence of its <<key, value>> pairs in  *)
(*    the order this run iterates it; keys are distinct.  The order is an  *)
(*    input: every order is a state the program can be in.                 *)
(*  - f64 values are finite and are stood for by integers (a fixed        *)
(*    quantum); only their order is used by the code.                      *)
(*  - A regex pattern string is stood for by its parsed form:              *)
(*    [valid, start, classes, end], the anchors ^ and $ and a sequence of  *)
(*    character classes; valid = FALSE is a pattern Regex::new rejects.    *)
(***************************************************************************)
EXTENDS Integers, Sequences, FiniteSets, TLC

VARIABLES
  node, data, called, result,      \* validate: its arguments and its return
  schema, compiled,                \* from: the definition and its return
  forked, started, res, finished   \* the Object arm's worker pool

vars == <<node, data, called, result, schema, compiled, forked, started, res, finished>>

-----------------------------------------------------------------------------
(* Bounds of the model *)

\* Integer and Decimal bounds and values range over -MaxNum-1 .. MaxNum+1
MaxNum == 1

\* Data strings have at most MaxStrLen characters
MaxStrLen == 2

-----------------------------------------------------------------------------
(* Strings *)

None == <<>>

Some(v) == <<v>>

ROOT == <<"R", "O", "O", "T">>

Arrow == <<" ", "-", ">", " ">>

\* Characters that take two bytes in UTF-8 (named by their code point)
TwoByteChars == {"U+00E9", "U+0663"}

Utf8Len(c) == IF c \in TwoByteChars THEN 2 ELSE 1

RECURSIVE ByteLen(_)
\* String::len(): the length in bytes
ByteLen(s) == IF s = <<>> THEN 0 ELSE Utf8Len(Head(s)) + ByteLen(Tail(s))

\* The modulus of usize, scaled to what TLC's integers hold (2^64 in the build)
UsizeModulus == 2^30

\* `x as usize` of an i64: two's complement wrap-around
AsUsize(x) == x % UsizeModulus

Digits == <<"0", "1", "2", "3", "4", "5", "6", "7", "8", "9">>

IsDigit(c) == \E i \in 1..10 : Digits[i] = c

DigitVal(c) == (CHOOSE i \in 1..10 : Digits[i] = c) - 1

RECURSIVE DigitsVal(_, _)
DigitsVal(s, acc) ==
  IF s = <<>> THEN acc ELSE DigitsVal(Tail(s), 10 * acc + DigitVal(Head(s)))

\* str::parse::<i64>(): an optional sign, then one or more ASCII digits
ParseI64(s) ==
  LET signed == s # <<>> /\ Head(s) \in {"+", "-"}
      body == IF signed THEN Tail(s) ELSE s
  IN IF body = <<>> \/ \E i \in 1..Len(body) : ~IsDigit(body[i])
       THEN None
       ELSE IF signed /\ Head(s) = "-"
              THEN Some(0 - DigitsVal(body, 0))
              ELSE Some(DigitsVal(body, 0))

UpperLetters == <<"A", "B", "C", "D", "E", "F", "G", "H", "I", "J", "K", "L", "M",
                  "N", "O", "P", "Q", "R", "S", "T", "U", "V", "W", "X", "Y", "Z">>

LowerLetters == <<"a", "b", "c", "d", "e", "f", "g", "h", "i", "j", "k", "l", "m",
                  "n", "o", "p", "q", "r", "s", "t", "u", "v", "w", "x", "y", "z">>

LowerChar(c) ==
  IF \E i \in 1..26 : UpperLetters[i] = c
    THEN LowerLetters[CHOOSE i \in 1..26 : UpperLetters[i] = c]
    ELSE c

\* str::to_lowercase()
ToLowercase(s) == [i \in 1..Len(s) |-> LowerChar(s[i])]

-----------------------------------------------------------------------------
(* Regex *)

\* The classes of a pattern match s at positions from .. from + n - 1
ClassesMatchAt(re, s, from) ==
  /\ from + Len(re.classes) - 1 <= Len(s)
  /\ \A k \in 1..Len(re.classes) : s[from + k - 1] \in re.classes[k]

\* A match of the whole of s: what is_match would be were the pattern
\* wrapped in ^(?:...)$
IsMatchWhole(re, s) ==
  /\ Len(s) = Len(re.classes)
  /\ ClassesMatchAt(re, s, 1)

\* Regex::is_match: a search, true when the pattern matches anywhere in s;
\* only the pattern's own anchors tie the match to the start or the end
IsMatch(re, s) ==
  \E from \in 1..(Len(s) + 1) :
    /\ ClassesMatchAt(re, s, from)
    /\ re.start => from = 1
    /\ re.end => from + Len(re.classes) - 1 = Len(s)

\* Decimal digits outside ASCII (named by their code point): the regex
\* crate's \d is Unicode-aware, [0-9] is not
OtherDecimalDigits == {"U+0663"}

\* The date pattern with \d{2} for the day: ^\d{4}-(0[1-9]|1[0-2])-\d{2}$
DateRegexAnyDay(s) ==
  /\ Len(s) = 10
  /\ \A i \in {1, 2, 3, 4, 9, 10} : IsDigit(s[i]) \/ s[i] \in OtherDecimalDigits
  /\ s[5] = "-"
  /\ \/ s[6] = "0" /\ s[7] \in {"1", "2", "3", "4", "5", "6", "7", "8", "9"}
     \/ s[6] = "1" /\ s[7] \in {"0", "1", "2"}
  /\ s[8] = "-"

\* ^\d{4}-(0[1-9]|1[0-2])-(0[1-9]|[12][0-9]|3[01])$
DateRegexIsMatch(s) ==
  /\ Len(s) = 10
  /\ \A i \in 1..4 : IsDigit(s[i]) \/ s[i] \in OtherDecimalDigits
  /\ s[5] = "-"
  /\ \/ s[6] = "0" /\ s[7] \in {"1", "2", "3", "4", "5", "6", "7", "8", "9"}
     \/ s[6] = "1" /\ s[7] \in {"0", "1", "2"}
  /\ s[8] = "-"
  /\ \/ s[9] = "0" /\ s[10] \in {"1", "2", "3", "4", "5", "6", "7", "8", "9"}
     \/ s[9] \in {"1", "2"} /\ IsDigit(s[10])
     \/ s[9] = "3" /\ s[10] \in {"0", "1"}

-----------------------------------------------------------------------------
(* AS3Validator *)

Object(fields) == [kind |-> "Object", fields |-> fields]

String(regex, max_length, min_length) ==
  [kind |-> "String", regex |-> regex, max_length |-> max_length,
   min_length |-> min_length]

Integer(minimum, maximum) ==
  [kind |-> "Integer", minimum |-> minimum, maximum |-> maximum]

Decimal(minimum, maximum) ==
  [kind |-> "Decimal", minimum |-> minimum, maximum |-> maximum]

List(items_type) == [kind |-> "List", items_type |-> items_type]

Map(key_type, value_type) ==
  [kind |-> "Map", key_type |-> key_type, value_type |-> value_type]

Boolean == [kind |-> "Boolean"]

Date == [kind |-> "Date"]

Nullable(inner) == [kind |-> "Nullable", inner |-> inner]

(* AS3Data *)

DObject(entries) == [kind |-> "Object", entries |-> entries]

DString(s) == [kind |-> "String", string |-> s]

DBoolean(b) == [kind |-> "Boolean", bool |-> b]

DInteger(n) == [kind |-> "Integer", int |-> n]

DDecimal(x) == [kind |-> "Decimal", dec |-> x]

DList(items) == [kind |-> "List", items |-> items]

Null == [kind |-> "Null"]

\* HashMap::contains_key / get on the pair sequence
ContainsKey(m, k) == \E i \in 1..Len(m) : m[i][1] = k

Get(m, k) == m[CHOOSE i \in 1..Len(m) : m[i][1] = k][2]

-----------------------------------------------------------------------------
(* AS3ValidationError, As3JsonPath and Result *)

TypeError(expected, got) == [kind |-> "TypeError", expected |-> expected, got |-> got]

MissingKey(key) == [kind |-> "MissingKey", key |-> key]

RegexError(word, regex) == [kind |-> "RegexError", word |-> word, regex |-> regex]

MinimumInteger(number, minimum) ==
  [kind |-> "MinimumInteger", number |-> number, minimum |-> minimum]

MaximumInteger(number, maximum) ==
  [kind |-> "MaximumInteger", number |-> number, maximum |-> maximum]

MinimumDouble(number, minimum) ==
  [kind |-> "MinimumDouble", number |-> number, minimum |-> minimum]

Generic(msg) == [kind |-> "Generic", msg |-> msg]

MaximumString(string, current_lenght, max_length) ==
  [kind |-> "MaximumString", string |-> string, current_lenght |-> current_lenght,
   max_length |-> max_length]

MinimumString(string, current_lenght, min_length) ==
  [kind |-> "MinimumString", string |-> string, current_lenght |-> current_lenght,
   min_length |-> min_length]

NotNullableNull == [kind |-> "NotNullableNull"]

Ok == [tag |-> "Ok"]

\* Err(As3JsonPath(path, error))
Err(path, error) == [tag |-> "Err", path |-> path, error |-> error]

\* The call did not return: an unwrap() on an Err aborted it
Panic == [tag |-> "Panic"]

\* A String error of check_map_key_value: a format string and its arguments
KeyErr(fmt, key) == [tag |-> "Err", msg |-> [fmt |-> fmt, arg |-> key]]

\* As3JsonPath's Display, "{1} in [{0}]. "
DisplayErr(e) == [tag |-> "Err", msg |-> [fmt |-> "{1} in [{0}]. ", arg |-> e.path, cause |-> e.error]]

\* temp_path that leaves the path as it was
temp_path_unextended(path, key) == path

\* The path handed to the check of a field or of a map entry:
\* path.clone(), push_str(" -> "), push_str(key)
temp_path(path, key) == path \o Arrow \o key

\* Result<Vec<()>, E>::from_iter over already collected results: the first
\* Err in sequence order, Ok when there is none; a panic while the results
\* were being produced leaves no result
Collect(results) ==
  IF \E i \in 1..Len(results) : results[i].tag = "Panic" THEN Panic
  ELSE IF \E i \in 1..Len(results) : results[i].tag = "Err"
    THEN results[CHOOSE i \in 1..Len(results) :
                   /\ results[i].tag = "Err"
                   /\ \A j \in 1..(i - 1) : results[j].tag # "Err"]
    ELSE Ok

-----------------------------------------------------------------------------
(* AS3Validator::check *)

RECURSIVE check(_, _, _)
RECURSIVE check_map_key_value(_, _, _)
RECURSIVE check_map_entries(_, _, _, _)

\* check_integer with exclusive bounds (<= and >= for < and >)
check_integer_exclusive(self, number, path) ==
  IF self.minimum # None /\ number <= self.minimum[1]
    THEN Err(path, MinimumInteger(number, self.minimum[1]))
  ELSE IF self.maximum # None /\ number >= self.maximum[1]
    THEN Err(path, MaximumInteger(number, self.maximum[1]))
  ELSE Ok

\* The (Integer, Integer) arm
check_integer(self, number, path) ==
  IF self.minimum # None /\ number < self.minimum[1]
    THEN Err(path, MinimumInteger(number, self.minimum[1]))
  ELSE IF self.maximum # None /\ number > self.maximum[1]
    THEN Err(path, MaximumInteger(number, self.maximum[1]))
  ELSE Ok

\* The (Decimal, Decimal) arm: both violations build MinimumDouble
check_decimal(self, number, path) ==
  IF self.minimum # None /\ number < self.minimum[1]
    THEN Err(path, MinimumDouble(number, self.minimum[1]))
  ELSE IF self.maximum # None /\ number > self.maximum[1]
    THEN Err(path, MinimumDouble(number, self.maximum[1]))
  ELSE Ok

\* check_string with the two length checks in the other order
check_string_max_first(self, string, path) ==
  IF self.regex # None /\ ~self.regex[1].valid
    THEN Panic
  ELSE IF self.regex # None /\ ~IsMatch(self.regex[1], string)
    THEN Err(path, RegexError(string, self.regex[1]))
  ELSE IF self.max_length # None /\ ByteLen(string) > AsUsize(self.max_length[1])
    THEN Err(path, MaximumString(string, ByteLen(string), self.max_length[1]))
  ELSE IF self.min_length # None /\ ByteLen(string) < AsUsize(self.min_length[1])
    THEN Err(path, MinimumString(string, ByteLen(string), self.min_length[1]))
  ELSE Ok

\* The (String, String) arm: regex, then min_length, then max_length
check_string(self, string, path) ==
  IF self.regex # None /\ ~self.regex[1].valid
    THEN Panic
  ELSE IF self.regex # None /\ ~IsMatch(self.regex[1], string)
    THEN Err(path, RegexError(string, self.regex[1]))
  ELSE IF self.min_length # None /\ ByteLen(string) < AsUsize(self.min_length[1])
    THEN Err(path, MinimumString(string, ByteLen(string), self.min_length[1]))
  ELSE IF self.max_length # None /\ ByteLen(string) > AsUsize(self.max_length[1])
    THEN Err(path, MaximumString(string, ByteLen(string), self.max_length[1]))
  ELSE Ok

\* The (Date, String) arm
check_date(items, path) ==
  IF ~DateRegexIsMatch(items)
    THEN Err(path, Generic([fmt |-> " `{}` can't be converted to a valid date. [Supported YYYY-MM-DD] ",
                            arg |-> items]))
    ELSE Ok

\* check_field that lets an absent field pass when its node is Nullable
check_field_nullable_optional(validator_key, validator_value, data_inner, path) ==
  IF ContainsKey(data_inner, validator_key)
    THEN check(validator_value, Get(data_inner, validator_key),
               temp_path(path, validator_key))
    ELSE IF validator_value.kind = "Nullable" THEN Ok
    ELSE Err(path, MissingKey(validator_key))

\* check_field that lets an absent field pass
check_field_optional(validator_key, validator_value, data_inner, path) ==
  IF ContainsKey(data_inner, validator_key)
    THEN check(validator_value, Get(data_inner, validator_key),
               temp_path(path, validator_key))
    ELSE Ok

\* The closure mapped over the schema's fields in the (Object, Object) arm
check_field(validator_key, validator_value, data_inner, path) ==
  IF ContainsKey(data_inner, validator_key)
    THEN check(validator_value, Get(data_inner, validator_key),
               temp_path(path, validator_key))
    ELSE Err(path, MissingKey(validator_key))

\* The (Object, Object) arm: every field's result is collected, then reduced
check_object(validator_inner, data_inner, path) ==
  Collect([i \in 1..Len(validator_inner) |->
             check_field(validator_inner[i][1], validator_inner[i][2],
                         data_inner, path)])

\* check_list that reports the last failing element
check_list_last(items_type, items, path) ==
  Collect([i \in 1..Len(items) |->
             check(items_type, items[Len(items) + 1 - i], path)])

\* The (List, List) arm: the elements are checked at the list's own path
check_list(items_type, items, path) ==
  Collect([i \in 1..Len(items) |-> check(items_type, items[i], path)])

\* check_map_entry that reports the key's failure before the value's
check_map_entry_key_first(key_data, value_data, key_type, value_type, path) ==
  LET v == check(value_type, value_data, temp_path(path, key_data))
      k == check_map_key_value(key_data, key_type, temp_path(path, key_data))
  IN IF v.tag = "Panic" \/ k.tag = "Panic" THEN Panic
     ELSE IF k.tag = "Err" THEN Err(temp_path(path, key_data), Generic(k.msg))
     ELSE IF v.tag = "Err" THEN v
     ELSE Ok

\* One turn of the (Map, Object) arm's loop: the value, then the key
check_map_entry(key_data, value_data, key_type, value_type, path) ==
  LET v == check(value_type, value_data, temp_path(path, key_data))
      k == check_map_key_value(key_data, key_type, temp_path(path, key_data))
  IN IF v.tag = "Panic" \/ k.tag = "Panic" THEN Panic
     ELSE IF v.tag = "Err" THEN v
     ELSE IF k.tag = "Err" THEN Err(temp_path(path, key_data), Generic(k.msg))
     ELSE Ok

\* The (Map, Object) arm: the loop returns at the first entry that fails
check_map_entries(self, data_inner, i, path) ==
  IF i > Len(data_inner) THEN Ok
  ELSE LET r == check_map_entry(data_inner[i][1], data_inner[i][2],
                                self.key_type, self.value_type, path)
       IN IF r.tag = "Ok" THEN check_map_entries(self, data_inner, i + 1, path)
          ELSE r

\* check_map_key_integer that does not hand the parsed key to the node
check_map_key_integer_unbounded(key, wanted_type, path) ==
  IF ParseI64(key) = None
    THEN KeyErr("The Key `{}` can't be converted to an Integer", key)
    ELSE Ok

\* The Integer arm of check_map_key_value: key.parse::<i64>(), then the
\* node's own check, whose error is turned into its Display string
check_map_key_integer(key, wanted_type, path) ==
  IF ParseI64(key) = None
    THEN KeyErr("The Key `{}` can't be converted to an Integer", key)
    ELSE LET r == check(wanted_type, DInteger(ParseI64(key)[1]), path)
         IN IF r.tag = "Ok" THEN Ok ELSE DisplayErr(r)

\* check_map_key_date that hands on the Date node's own error
check_map_key_date_own_error(key, wanted_type, path) ==
  LET r == check(wanted_type, DString(key), path)
  IN IF r.tag = "Ok" THEN Ok ELSE DisplayErr(r)

\* The Date arm of check_map_key_value
check_map_key_date(key, wanted_type, path) ==
  IF check(wanted_type, DString(key), path).tag = "Ok"
    THEN Ok
    ELSE KeyErr("The Key `{}` can't be converted to a Date", key)

\* check_map_key_unsupported that lets the key pass
check_map_key_unsupported_passes == Ok

\* The last arm of check_map_key_value: every other key type
check_map_key_unsupported ==
  KeyErr("Usupported Map's KeyValue conversion. [Supported types : String, Integer, Bool, Date(YYYY-MM-DD) ]",
         <<>>)

\* check_map_key_value: the String arm's result is bound to _ and dropped,
\* the other arms return early on a failure, and the function ends in Ok(())
check_map_key_value(key, wanted_type, path) ==
  CASE wanted_type.kind = "String" ->
         IF check(wanted_type, DString(key), path).tag = "Panic" THEN Panic ELSE Ok
    [] wanted_type.kind = "Integer" ->
         check_map_key_integer(key, wanted_type, path)
    [] wanted_type.kind = "Boolean" ->
         IF ToLowercase(key) \in {<<"t", "r", "u", "e">>, <<"f", "a", "l", "s", "e">>,
                                  <<"1">>, <<"0">>}
           THEN Ok
           ELSE KeyErr("The Key `{}` can't be converted to a Boolean", key)
    [] wanted_type.kind = "Date" ->
         check_map_key_date(key, wanted_type, path)
    [] OTHER ->
         check_map_key_unsupported

RECURSIVE path_after(_, _, _)
RECURSIVE path_after_items(_, _, _, _)

\* path_after_entry for a closure that pushes onto the caller's path
path_after_entry_in_place(validator_value, value, path, key) ==
  path_after(validator_value, value, temp_path(path, key))

\* The caller's path after the check of one Object field or Map entry: the
\* callee is handed &mut temp_path, a clone that is dropped afterwards
path_after_entry(validator_value, value, path, key) == path

\* The (List, List) arm hands the caller's own path to every element, one
\* after the other
path_after_items(items_type, items, i, path) ==
  IF i > Len(items) THEN path
  ELSE path_after_items(items_type, items, i + 1, path_after(items_type, items[i], path))

RECURSIVE path_after_all(_, _, _)

\* The caller's path after the checks of the entries listed
path_after_all(calls, i, path) ==
  IF i > Len(calls) THEN path
  ELSE path_after_all(calls, i + 1,
                      path_after_entry(calls[i][1], calls[i][2], path, calls[i][3]))

\* What check leaves in the String behind its `path: &mut String`
path_after(self, d, path) ==
  CASE d = Null -> path
    [] self.kind = "Object" /\ d.kind = "Object" ->
         path_after_all(
           SelectSeq([i \in 1..Len(self.fields) |->
                        IF ContainsKey(d.entries, self.fields[i][1])
                          THEN <<self.fields[i][2], Get(d.entries, self.fields[i][1]),
                                 self.fields[i][1]>>
                          ELSE <<>>],
                     LAMBDA c : c # <<>>),
           1, path)
    [] self.kind = "Map" /\ d.kind = "Object" ->
         path_after_all([i \in 1..Len(d.entries) |->
                           <<self.value_type, d.entries[i][2], d.entries[i][1]>>],
                        1, path)
    [] self.kind = "List" /\ d.kind = "List" ->
         path_after_items(self.items_type, d.items, 1, path)
    [] OTHER -> path

\* check_dispatch with a Decimal node that also takes Integer data
check_dispatch_coercing(self, d, path) ==
  CASE self.kind = "Object" /\ d.kind = "Object" ->
         check_object(self.fields, d.entries, path)
    [] self.kind = "Map" /\ d.kind = "Object" ->
         check_map_entries(self, d.entries, 1, path)
    [] self.kind = "Integer" /\ d.kind = "Integer" ->
         check_integer(self, d.int, path)
    [] self.kind = "Decimal" /\ d.kind = "Decimal" ->
         check_decimal(self, d.dec, path)
    [] self.kind = "Decimal" /\ d.kind = "Integer" ->
         check_decimal(self, d.int, path)
    [] self.kind = "String" /\ d.kind = "String" ->
         check_string(self, d.string, path)
    [] self.kind = "List" /\ d.kind = "List" ->
         check_list(self.items_type, d.items, path)
    [] self.kind = "Date" /\ d.kind = "String" ->
         check_date(d.string, path)
    [] self.kind = "Boolean" /\ d.kind = "Boolean" -> Ok
    [] OTHER -> Err(path, TypeError(self, d))

\* The second match of check: the dispatch on (self, data), data not Null
check_dispatch(self, d, path) ==
  CASE self.kind = "Object" /\ d.kind = "Object" ->
         check_object(self.fields, d.entries, path)
    [] self.kind = "Map" /\ d.kind = "Object" ->
         check_map_entries(self, d.entries, 1, path)
    [] self.kind = "Integer" /\ d.kind = "Integer" ->
         check_integer(self, d.int, path)
    [] self.kind = "Decimal" /\ d.kind = "Decimal" ->
         check_decimal(self, d.dec, path)
    [] self.kind = "String" /\ d.kind = "String" ->
         check_string(self, d.string, path)
    [] self.kind = "List" /\ d.kind = "List" ->
         check_list(self.items_type, d.items, path)
    [] self.kind = "Date" /\ d.kind = "String" ->
         check_date(d.string, path)
    [] self.kind = "Boolean" /\ d.kind = "Boolean" -> Ok
    [] OTHER -> Err(path, TypeError(self, d))

\* check that dispatches on the type before it looks for a Null
check_dispatch_first(self, d, path) ==
  IF d.kind = "Null" /\ self.kind = "Nullable" THEN Ok
  ELSE check_dispatch(self, d, path)

\* The first match of check: Null is settled before the dispatch
check(self, d, path) ==
  IF d.kind = "Null"
    THEN IF self.kind = "Nullable" THEN Ok ELSE Err(path, NotNullableNull)
    ELSE check_dispatch(self, d, path)

validate(self, d) == check(self, d, ROOT)

-----------------------------------------------------------------------------
(* The inputs of validate *)

KeyA == <<"a">>

Key1 == <<"1">>

Keys == {KeyA, Key1}

Opt(S) == {None} \cup {Some(v) : v \in S}

\* Bounds a schema sets on a number, and the numbers a document holds
Bounds == (0 - MaxNum)..MaxNum

Nums == (0 - MaxNum - 1)..(MaxNum + 1)

\* Sequences over V of length at most n
SeqsUpTo(V, n) == UNION {[1..m -> V] : m \in 0..n}

RECURSIVE FieldSeqs(_, _)
\* The iteration orders of the hash maps with keys in K and values in V
FieldSeqs(K, V) ==
  {<<>>} \cup
  UNION {{<<<<k, v>>>> \o rest : v \in V, rest \in FieldSeqs(K \ {k}, V)} : k \in K}

UpperClass == {"A"}

LowerClass == {"a", "b"}

\* ^[A-Z][a-z]
ReUpperLower ==
  [valid |-> TRUE, start |-> TRUE, classes |-> <<UpperClass, LowerClass>>, end |-> FALSE]

\* [a-z]
ReLower == [valid |-> TRUE, start |-> FALSE, classes |-> <<LowerClass>>, end |-> FALSE]

\* ^[a-z]$
ReLowerOnly == [valid |-> TRUE, start |-> TRUE, classes |-> <<LowerClass>>, end |-> TRUE]

\* [A-Z]$
ReUpperEnd == [valid |-> TRUE, start |-> FALSE, classes |-> <<UpperClass>>, end |-> TRUE]

Patterns == {ReUpperLower, ReLower, ReLowerOnly, ReUpperEnd}

Alphabet == {"A", "a"}

Strings == SeqsUpTo(Alphabet, MaxStrLen)

AnyString == String(None, None, None)

IntegerNodes == {Integer(m, M) : m \in Opt(Bounds), M \in Opt(Bounds)}

DecimalNodes == {Decimal(m, M) : m \in Opt(Bounds), M \in Opt(Bounds)}

\* One node of every variant, the numeric ones with every choice of bounds
PlainNodes ==
  IntegerNodes \cup DecimalNodes \cup
  {AnyString, String(Some(ReLower), None, Some(1)), Boolean, Date,
   Object(<<>>), Object(<<<<KeyA, Boolean>>>>), List(Boolean),
   Map(AnyString, Boolean)}

ScalarNodes == PlainNodes \cup {Nullable(n) : n \in PlainNodes}

\* One document value of every variant
ScalarData ==
  {DInteger(n) : n \in Nums} \cup {DDecimal(x) : x \in Nums} \cup
  {DString(s) : s \in {<<>>, <<"a">>, <<"A">>}} \cup
  {DBoolean(TRUE), DBoolean(FALSE), Null, DObject(<<>>),
   DObject(<<<<KeyA, DBoolean(TRUE)>>>>), DList(<<>>), DList(<<DBoolean(TRUE)>>)}

-----------------------------------------------------------------------------
(* The state machine: a document and a schema are handed to validate once *)

NotCalled == [tag |-> "NotCalled"]

\* No definition was given: the node was built directly
NoSchema == [y |-> "None"]

\* No node yet
NoNode == [kind |-> "None"]

\* The worker pool before any Object arm has handed it work
PoolIdle ==
  /\ forked = FALSE
  /\ started = {}
  /\ res = <<>>
  /\ finished = <<>>

InitOn(inputs) ==
  /\ \E i \in inputs : node = i[1] /\ data = i[2]
  /\ called = FALSE
  /\ result = NotCalled
  /\ schema = NoSchema
  /\ compiled = NotCalled
  /\ PoolIdle

\* AS3Validator::validate
Validate ==
  /\ ~called
  /\ node # NoNode
  /\ called' = TRUE
  /\ result' = validate(node, data)
  /\ UNCHANGED <<node, data, schema, compiled, forked, started, res, finished>>

Next == Validate

\* Bound of the model: document lists have at most MaxListLen elements
MaxListLen == 2

\* Nodes and values that sit under the containers
LeafNodes == {Integer(Some(0), Some(MaxNum)), Boolean, Nullable(Boolean)}

LeafData == {DInteger(0 - 1), DInteger(0), DInteger(MaxNum + 1), DBoolean(TRUE), Null}

ObjectNodes == {Object(fs) : fs \in FieldSeqs(Keys, LeafNodes)}

ObjectData == {DObject(es) : es \in FieldSeqs(Keys, LeafData)}

ElemNodes == LeafNodes \cup {Object(fs) : fs \in FieldSeqs({KeyA}, LeafNodes)}

ElemData == LeafData \cup {DObject(es) : es \in FieldSeqs({KeyA}, LeafData)}

ListNodes == {List(n) : n \in ElemNodes}

ListData == {DList(items) : items \in SeqsUpTo(ElemData, MaxListLen)}

KeyTypes == {AnyString, Integer(Some(0), None), Boolean, Date, List(Boolean)}

MapNodes == {Map(k, v) : k \in KeyTypes, v \in LeafNodes}

\* Containers with the documents of their own kind
FlatInputs ==
  (ObjectNodes \X ObjectData) \cup (ListNodes \X ListData) \cup (MapNodes \X ObjectData)

\* The same one level down, as the only field of an Object
NestedInputs ==
  {<<Object(<<<<k, i[1]>>>>), DObject(<<<<k, i[2]>>>>)>> : k \in Keys, i \in FlatInputs}

\* Null, and the leaves, handed to every node
TopInputs ==
  ((LeafNodes \cup ObjectNodes \cup ListNodes \cup MapNodes) \X {Null}) \cup
  (LeafNodes \X LeafData)

InitTree == InitOn(FlatInputs \cup NestedInputs \cup TopInputs)

\* validate on containers: Objects, Lists and Maps, one and two levels deep
SpecTree == InitTree /\ [][Next]_vars

\* Length bounds a schema sets on a String
LenBounds == 0..(MaxStrLen + 1)

\* String nodes with a well-formed pattern or none and every choice of
\* length bounds
StringNodes ==
  {String(re, M, m) : re \in Opt(Patterns), M \in Opt(LenBounds), m \in Opt(LenBounds)}

InitString == InitOn(StringNodes \X {DString(s) : s \in Strings})

\* validate of a string against a String node
SpecString == InitString /\ [][Next]_vars

Init == InitOn(ScalarNodes \X ScalarData)

Spec == Init /\ [][Next]_vars

-----------------------------------------------------------------------------
(* Properties of the numeric arms and of the dispatch, under Spec *)

\* m <= v <= M over the bounds that are set
WithinBounds(n, v) ==
  /\ n.minimum # None => n.minimum[1] <= v
  /\ n.maximum # None => v <= n.maximum[1]

\* C4: numeric bounds are inclusive: an Integer (or Decimal) value passes an
\* Integer (or Decimal) node exactly when minimum <= value <= maximum over
\* the bounds that are set, so the bounds themselves pass and one unit
\* outside them fails.
C4_BoundsInclusive ==
  called =>
    /\ node.kind = "Integer" /\ data.kind = "Integer" =>
         (result = Ok <=> WithinBounds(node, data.int))
    /\ node.kind = "Decimal" /\ data.kind = "Decimal" =>
         (result = Ok <=> WithinBounds(node, data.dec))

\* An Integer equal to the maximum of a node with both bounds set has passed
C4_Witness ==
  /\ called
  /\ node.kind = "Integer" /\ data.kind = "Integer"
  /\ node.minimum # None /\ node.maximum # None
  /\ node.minimum[1] < node.maximum[1]
  /\ data.int = node.maximum[1]
  /\ result = Ok

MinimumKinds == {"Minimum", "MinimumInteger", "MinimumDouble"}

MaximumKinds == {"Maximum", "MaximumInteger", "MaximumDouble"}

\* C5: for Integer and Decimal nodes alike, a value below the minimum fails
\* with a Minimum error carrying the value and the minimum, and a value not
\* below the minimum but above the maximum fails with a Maximum error
\* carrying the value and the maximum.
C5_MinimumThenMaximum ==
  called /\ node.kind \in {"Integer", "Decimal"} /\ data.kind = node.kind =>
    LET v == IF node.kind = "Integer" THEN data.int ELSE data.dec
        below == node.minimum # None /\ v < node.minimum[1]
        above == node.maximum # None /\ v > node.maximum[1]
    IN /\ below =>
            /\ result.tag = "Err"
            /\ result.error.kind \in MinimumKinds
            /\ result.error.number = v
            /\ result.error.minimum = node.minimum[1]
       /\ ~below /\ above =>
            /\ result.tag = "Err"
            /\ result.error.kind \in MaximumKinds
            /\ result.error.number = v
            /\ result.error.maximum = node.maximum[1]

RECURSIVE Accepts(_, _)
\* The kind of document value a node is for
Accepts(n, d) ==
  CASE n.kind = "Nullable" -> Accepts(n.inner, d)
    [] n.kind \in {"Object", "Map"} -> d.kind = "Object"
    [] n.kind = "Date" -> d.kind = "String"
    [] OTHER -> d.kind = n.kind

\* C6: a document value that is not Null and not of the kind the node is for
\* fails with TypeError{expected: the node, got: the value}, at the path of
\* the call, and with nothing else.
C6_TypeErrorOnMismatch ==
  called /\ data # Null /\ ~Accepts(node, data) =>
    result = Err(ROOT, TypeError(node, data))

\* A Decimal node was handed an Integer and answered with a TypeError
C6_Witness ==
  /\ called
  /\ node.kind = "Decimal" /\ data.kind = "Integer"
  /\ result.tag = "Err" /\ result.error.kind = "TypeError"

\* Two results agree; the node a TypeError names as expected is left open
\* (the wrapper or the wrapped node)
SameResult(r1, r2) ==
  \/ r1 = r2
  \/ /\ r1.tag = "Err" /\ r2.tag = "Err"
     /\ r1.path = r2.path
     /\ r1.error.kind = "TypeError" /\ r2.error.kind = "TypeError"
     /\ r1.error.got = r2.error.got

\* C2: for data that is not Null, validate(Nullable(N), d) returns what
\* validate(N, d) returns: the wrapped node decides.
C2_NullableDefersToInner ==
  called /\ node.kind = "Nullable" /\ data # Null =>
    SameResult(result, validate(node.inner, data))

-----------------------------------------------------------------------------
(* Properties of the containers and of the breadcrumb path, under SpecTree *)

\* Bound of the model: the breadcrumbs looked for have at most MaxDepth segments
MaxDepth == 2

Trails == SeqsUpTo(Keys, MaxDepth)

RECURSIVE PathOf(_)
\* The breadcrumb of a descent: `ROOT`, then ` -> <name>` for each name
PathOf(trail) ==
  IF trail = <<>> THEN <<"R", "O", "O", "T">>
  ELSE PathOf(SubSeq(trail, 1, Len(trail) - 1))
         \o <<" ", "-", ">", " ">> \o trail[Len(trail)]

\* The outcome the Null rule gives for node n at the breadcrumb of trail
NullRule(n, trail) ==
  IF n.kind = "Nullable" THEN Ok ELSE Err(PathOf(trail), NotNullableNull)

\* C1: Null is settled before the type dispatch: a Null handed to
\* Nullable(N) is Ok whatever N is, and a Null handed to any other node is
\* NotNullableNull at the path of that call; at the root, in the only field
\* of an Object, as the only element of a List and as the only value of a Map.
C1_NullBeforeDispatch ==
  called =>
    /\ data = Null => result = NullRule(node, <<>>)
    /\ /\ node.kind = "Object" /\ data.kind = "Object"
       /\ Len(node.fields) = 1 /\ Len(data.entries) = 1
       /\ data.entries[1] = <<node.fields[1][1], Null>>
       => result = NullRule(node.fields[1][2], <<node.fields[1][1]>>)
    /\ /\ node.kind = "List" /\ data = DList(<<Null>>)
       => result = NullRule(node.items_type, <<>>)
    /\ /\ node.kind = "Map" /\ node.key_type = AnyString /\ data.kind = "Object"
       /\ Len(data.entries) = 1 /\ data.entries[1][2] = Null
       => result = NullRule(node.value_type, <<data.entries[1][1]>>)
    /\ /\ node.kind = "Object" /\ data.kind = "Object"
       /\ Len(node.fields) = 1 /\ Len(data.entries) = 1
       /\ node.fields[1][1] = data.entries[1][1]
       /\ node.fields[1][2].kind = "Object" /\ data.entries[1][2].kind = "Object"
       /\ Len(node.fields[1][2].fields) = 1
       /\ data.entries[1][2].entries = <<<<node.fields[1][2].fields[1][1], Null>>>>
       => result = NullRule(node.fields[1][2].fields[1][2],
                            <<node.fields[1][1], node.fields[1][2].fields[1][1]>>)

\* A Null in a field of a nested Object was refused at `ROOT -> k -> k2`
C1_Witness ==
  /\ called
  /\ node.kind = "Object" /\ Len(node.fields) = 1
  /\ node.fields[1][2].kind = "Object" /\ Len(node.fields[1][2].fields) = 1
  /\ node.fields[1][2].fields[1][2].kind = "Integer"
  /\ result.tag = "Err" /\ result.error = NotNullableNull
  /\ Len(result.path) = Len(ROOT) + 2 * (Len(Arrow) + 1)

\* The check of the i-th declared field of Object node n against Object d passes
FieldPasses(n, d, i) ==
  /\ ContainsKey(d.entries, n.fields[i][1])
  /\ check(n.fields[i][2], Get(d.entries, n.fields[i][1]),
           PathOf(<<n.fields[i][1]>>)) = Ok

\* C3: an Object node accepts an Object exactly when every declared field is
\* present and its value passes the field's node, so fields the schema does
\* not declare never matter; an absent declared field yields
\* MissingKey{key: field} (reported when no field before it in the schema
\* map's iteration order fails).
C3_ObjectFieldsMandatory ==
  called /\ node.kind = "Object" /\ data.kind = "Object" =>
    /\ result = Ok <=> \A i \in 1..Len(node.fields) : FieldPasses(node, data, i)
    /\ \A i \in 1..Len(node.fields) :
         /\ ~ContainsKey(data.entries, node.fields[i][1])
         /\ \A j \in 1..(i - 1) : FieldPasses(node, data, j)
         => result.tag = "Err" /\ result.error = MissingKey(node.fields[i][1])

\* The declared field is absent, the only field of the data is not declared
C3_Witness ==
  /\ called
  /\ node.kind = "Object" /\ data.kind = "Object"
  /\ Len(node.fields) = 1 /\ Len(data.entries) = 1
  /\ node.fields[1][1] # data.entries[1][1]
  /\ result.tag = "Err" /\ result.error = MissingKey(node.fields[1][1])

\* Error e arises in the pair (n, d) itself, not below it
LocalFailure(n, d, e) ==
  \/ d = Null /\ n.kind # "Nullable" /\ e = NotNullableNull
  \/ d # Null /\ e = TypeError(n, d)
  \/ /\ n.kind = "Object" /\ d.kind = "Object" /\ e.kind = "MissingKey"
     /\ ContainsKey(n.fields, e.key) /\ ~ContainsKey(d.entries, e.key)
  \/ /\ n.kind \in {"Integer", "Decimal", "String"} /\ d.kind = n.kind
     /\ check_dispatch(n, d, <<>>) = Err(<<>>, e)
  \/ /\ n.kind = "Date" /\ d.kind = "String"
     /\ check_dispatch(n, d, <<>>) = Err(<<>>, e)

RECURSIVE FailsAt(_, _, _, _)
\* Descending from (n, d) through the Object fields and Map keys that trail
\* names, in order (a List is passed through without a name), ends at a
\* pair in which e arises, or at a Map key that e refuses
FailsAt(n, d, trail, e) ==
  \/ trail = <<>> /\ LocalFailure(n, d, e)
  \/ /\ n.kind = "List" /\ d.kind = "List"
     /\ \E i \in 1..Len(d.items) : FailsAt(n.items_type, d.items[i], trail, e)
  \/ /\ trail # <<>> /\ n.kind = "Object" /\ d.kind = "Object"
     /\ ContainsKey(n.fields, Head(trail)) /\ ContainsKey(d.entries, Head(trail))
     /\ FailsAt(Get(n.fields, Head(trail)), Get(d.entries, Head(trail)), Tail(trail), e)
  \/ /\ trail # <<>> /\ n.kind = "Map" /\ d.kind = "Object"
     /\ ContainsKey(d.entries, Head(trail))
     /\ \/ FailsAt(n.value_type, Get(d.entries, Head(trail)), Tail(trail), e)
        \/ Tail(trail) = <<>> /\ e.kind = "Generic"

ElemResult(n, d, i) == check(n.items_type, d.items[i], <<>>)

FailingElems(n, d) == {i \in 1..Len(d.items) : ElemResult(n, d, i) # Ok}

\* C8: a List node accepts a List exactly when every element passes the
\* element node; otherwise the error is that of the failing element with the
\* smallest index, at the list's own path followed by the segments descended
\* inside that element: no segment stands for the index.
C8_ListFirstFailingElement ==
  called /\ node.kind = "List" /\ data.kind = "List" =>
    /\ result = Ok <=> FailingElems(node, data) = {}
    /\ FailingElems(node, data) # {} =>
         LET first == CHOOSE i \in FailingElems(node, data) :
                        \A j \in FailingElems(node, data) : i <= j
         IN result = Err(PathOf(<<>>) \o ElemResult(node, data, first).path,
                         ElemResult(node, data, first).error)

\* Two elements fail with different errors, the second inside an Object
C8_Witness ==
  /\ called
  /\ node.kind = "List" /\ data.kind = "List"
  /\ Len(data.items) = 2
  /\ FailingElems(node, data) = {1, 2}
  /\ ElemResult(node, data, 1) # ElemResult(node, data, 2)
  /\ result.tag = "Err" /\ result.path = PathOf(<<KeyA>>)

-----------------------------------------------------------------------------
(* Properties of the String arm, under SpecString *)

\* The pattern, anchors aside, describes the whole of s
WholeMatch(re, s) ==
  /\ Len(s) = Len(re.classes)
  /\ \A k \in 1..Len(s) : s[k] \in re.classes[k]

\* Some stretch of s is described by the pattern, at the start of s if the
\* pattern begins with ^ and at its end if the pattern ends with $
MatchesSomewhere(re, s) ==
  \E i \in 1..Len(s) : \E j \in i..Len(s) :
    /\ WholeMatch(re, SubSeq(s, i, j))
    /\ re.start => i = 1
    /\ re.end => j = Len(s)

\* What the fixed order regex, minimum length, maximum length reports
InOrder(n, s) ==
  IF n.regex # None /\ ~MatchesSomewhere(n.regex[1], s)
    THEN Err(PathOf(<<>>), RegexError(s, n.regex[1]))
  ELSE IF n.min_length # None /\ Len(s) < n.min_length[1]
    THEN Err(PathOf(<<>>), MinimumString(s, Len(s), n.min_length[1]))
  ELSE IF n.max_length # None /\ Len(s) > n.max_length[1]
    THEN Err(PathOf(<<>>), MaximumString(s, Len(s), n.max_length[1]))
  ELSE Ok

\* C9: a string that violates several constraints of a String node is
\* reported by the first violated in the order regex, minimum length,
\* maximum length: RegexError, else MinimumString, else MaximumString, and
\* Ok only when none is violated.
C9_StringChecksInOrder ==
  called /\ node.kind = "String" /\ data.kind = "String" =>
    result = InOrder(node, data.string)

\* All three constraints are violated and the regex is the one reported
C9_Witness ==
  /\ called
  /\ node.kind = "String" /\ data.kind = "String"
  /\ node.regex # None /\ node.min_length # None /\ node.max_length # None
  /\ ~MatchesSomewhere(node.regex[1], data.string)
  /\ Len(data.string) < node.min_length[1]
  /\ Len(data.string) > node.max_length[1]
  /\ result.tag = "Err" /\ result.error.kind = "RegexError"

PassedRegex == result = Ok \/ (result.tag = "Err" /\ result.error.kind # "RegexError")

\* C10 as stated: a string passes the regex check only if the whole string
\* matches the pattern.
C10_WholeStringMustMatch ==
  called /\ node.kind = "String" /\ node.regex # None /\ data.kind = "String" =>
    (PassedRegex => WholeMatch(node.regex[1], data.string))

\* C10 as amended: a string passes the regex check exactly when the pattern
\* matches somewhere in it (a search); unmatched characters before or after
\* the match do not fail it unless the pattern's own ^ or $ excludes them;
\* a string with no match fails with RegexError{word, regex}.
C10_RegexIsSearch ==
  called /\ node.kind = "String" /\ node.regex # None /\ data.kind = "String" =>
    /\ PassedRegex <=> MatchesSomewhere(node.regex[1], data.string)
    /\ ~PassedRegex => result = Err(PathOf(<<>>), RegexError(data.string, node.regex[1]))

\* A string with an unmatched character before the match passed the regex
C10_Witness ==
  /\ called
  /\ node.kind = "String" /\ node.regex = Some(ReLower)
  /\ data = DString(<<"A", "a">>)
  /\ PassedRegex


-----------------------------------------------------------------------------
(* Strings handed to a Date node *)

\* Year parts: ASCII digits, a letter among them, a digit of another script
Years == {<<"2", "0", "2", "1">>, <<"2", "0", "a", "1">>, <<"U+0663", "0", "2", "1">>}

DateSeparators == {"-", "/"}

\* Characters of the month and day parts
DateChars == {"0", "1", "2", "3", "9", "a"}

TwoChars == {<<a, b>> : a \in DateChars, b \in DateChars}

\* year, separator, month, separator, day
DateLike ==
  {y \o <<s1>> \o m \o <<s2>> \o d :
     y \in Years, s1 \in DateSeparators, m \in TwoChars, s2 \in DateSeparators, d \in TwoChars}

ADate == <<"2", "0", "2", "1", "-", "0", "2", "-", "3", "0">>

\* A date with a character before or after it, a date cut short, nothing
NotTenLong == {<<>>, ADate \o <<"0">>, <<"0">> \o ADate, Tail(ADate), SubSeq(ADate, 1, 9)}

DateStrings == DateLike \cup NotTenLong

InitDate == InitOn({Date} \X {DString(s) : s \in DateStrings})

\* validate of a string against a Date node
SpecDate == InitDate /\ [][Next]_vars

-----------------------------------------------------------------------------
(* Claims on the Date node, checked under SpecDate *)

\* The number a pair of ASCII digits writes, -1 when one is not an ASCII digit
TwoDigitNumber(a, b) ==
  IF IsDigit(a) /\ IsDigit(b) THEN 10 * DigitVal(a) + DigitVal(b) ELSE 0 - 1

\* Four year digits (decimal digits of any script), a month in 01..12 and a
\* day in 01..31, separated by hyphens, and nothing else
HasDateShape(s) ==
  /\ Len(s) = 10
  /\ \A i \in 1..4 : IsDigit(s[i]) \/ s[i] \in OtherDecimalDigits
  /\ s[5] = "-" /\ s[8] = "-"
  /\ TwoDigitNumber(s[6], s[7]) \in 1..12
  /\ TwoDigitNumber(s[9], s[10]) \in 1..31

-----------------------------------------------------------------------------
(* Claims on the Map node, checked under SpecTree *)

\* The path of entry k of a container at path P
EntryPath(P, k) == P \o Arrow \o k

ValueResult(map, entry, P) == check(map.value_type, entry[2], EntryPath(P, entry[1]))

KeyResult(map, entry, P) ==
  check_map_key_value(entry[1], map.key_type, EntryPath(P, entry[1]))

EntryFails(map, entry, P) ==
  ValueResult(map, entry, P).tag = "Err" \/ KeyResult(map, entry, P).tag = "Err"

\* What the claim says a Map node at path P returns for the entries es
MapOutcome(map, es, P, r) ==
  IF \A i \in 1..Len(es) : ~EntryFails(map, es[i], P)
    THEN r = Ok
    ELSE LET i == CHOOSE i \in 1..Len(es) :
                    /\ EntryFails(map, es[i], P)
                    /\ \A j \in 1..(i - 1) : ~EntryFails(map, es[j], P)
         IN IF ValueResult(map, es[i], P).tag = "Err"
              THEN r = ValueResult(map, es[i], P)
              ELSE r = Err(EntryPath(P, es[i][1]), Generic(KeyResult(map, es[i], P).msg))

\* C12: a Map over an Object returns Ok when every entry's value and key
\* pass; otherwise it returns for the first failing entry, in the
\* document's order, the value's error unchanged when the value fails and
\* else Generic with the key's coercion message at the entry's path
C12_MapEntryOutcome ==
  called =>
    /\ (node.kind = "Map" /\ data.kind = "Object") =>
         MapOutcome(node, data.entries, ROOT, result)
    /\ (/\ node.kind = "Object" /\ data.kind = "Object"
        /\ Len(node.fields) = 1 /\ Len(data.entries) = 1
        /\ node.fields[1][1] = data.entries[1][1]
        /\ node.fields[1][2].kind = "Map" /\ data.entries[1][2].kind = "Object") =>
         MapOutcome(node.fields[1][2], data.entries[1][2].entries,
                    EntryPath(ROOT, node.fields[1][1]), result)

\* The first entry passes; the second has a value and a key that both fail,
\* and the value's error came back
C12_Witness ==
  /\ called /\ node.kind = "Map" /\ data.kind = "Object"
  /\ Len(data.entries) = 2
  /\ ~EntryFails(node, data.entries[1], ROOT)
  /\ ValueResult(node, data.entries[2], ROOT).tag = "Err"
  /\ KeyResult(node, data.entries[2], ROOT).tag = "Err"
  /\ result = ValueResult(node, data.entries[2], ROOT)


-----------------------------------------------------------------------------
(* Maps with every kind of key type *)

SlashDate == <<"2", "0", "2", "0", "/", "1", "0", "/", "1", "5">>

\* Keys that are dates, or nearly (month 13, day 00)
DateKeys ==
  {ADate, SlashDate,
   <<"2", "0", "2", "1", "-", "1", "3", "-", "0", "1">>,
   <<"2", "0", "2", "1", "-", "0", "1", "-", "0", "0">>}

\* Keys that are integers, or nearly
NumberKeys ==
  {Key1, <<"0">>, <<"2">>, <<"-", "1">>, <<"+", "1">>, <<"0", "1">>, <<"1", "a">>,
   <<" ", "1">>, <<"-">>, <<"U+0663">>}

WordKeys ==
  {<<>>, KeyA, <<"A">>, <<"a", "b">>, <<"a", "a", "a">>, <<"t", "r", "u", "e">>,
   <<"T", "R", "U", "E">>}

MapKeys == DateKeys \cup NumberKeys \cup WordKeys

\* Key types check_map_key_value has no arm for
UnsupportedKeyTypes ==
  {Object(<<>>), List(Boolean), Map(AnyString, Boolean), Decimal(None, None),
   Nullable(AnyString), Nullable(Integer(None, None))}

AllKeyTypes == StringNodes \cup IntegerNodes \cup {Boolean, Date} \cup UnsupportedKeyTypes

MapValueTypes == {Boolean, Integer(Some(0), Some(MaxNum))}

MapValues == {DBoolean(TRUE), DInteger(0)}

\* The empty document, every key on its own, two keys in both orders
MapDocuments ==
  {DObject(<<>>)} \cup
  {DObject(<<<<k, v>>>>) : k \in MapKeys, v \in MapValues} \cup
  {DObject(es) : es \in FieldSeqs(Keys, MapValues)}

InitMapKey ==
  InitOn({Map(k, v) : k \in AllKeyTypes, v \in MapValueTypes} \X MapDocuments)

\* validate of an Object against a Map node
SpecMapKey == InitMapKey /\ [][Next]_vars

-----------------------------------------------------------------------------
(* Claims on the keys of a Map, checked under SpecMapKey *)

\* A Map over an Object has been validated
MapCalled == called /\ node.kind = "Map" /\ data.kind = "Object"

\* The document has one entry and its value passes the value type
OneValidEntry ==
  /\ Len(data.entries) = 1
  /\ check(node.value_type, data.entries[1][2], EntryPath(ROOT, data.entries[1][1])) = Ok

\* C13: with a String key type, a key that violates the String node's
\* regex, minimum length or maximum length makes the Map fail
C13_StringKeysValidated ==
  (MapCalled /\ node.key_type.kind = "String") =>
    ((\E i \in 1..Len(data.entries) :
        check(node.key_type, DString(data.entries[i][1]), ROOT).tag = "Err")
       => result.tag = "Err")

\* The integers the keys write in base 10, sign and leading zeros allowed
WrittenIntegers ==
  {<<Key1, 1>>, <<<<"0">>, 0>>, <<<<"2">>, 2>>, <<<<"-", "1">>, 0 - 1>>,
   <<<<"+", "1">>, 1>>, <<<<"0", "1">>, 1>>}

Writes(k, n) == <<k, n>> \in WrittenIntegers

\* C14: with an Integer key type, a key passes exactly when it writes an
\* integer that lies within the node's bounds; a key that writes none fails
\* with the coercion message naming it, and one out of bounds fails too
C14_IntegerKeys ==
  (MapCalled /\ node.key_type.kind = "Integer" /\ OneValidEntry) =>
    LET k == data.entries[1][1]
    IN IF \E n \in (0 - 1)..2 : Writes(k, n)
         THEN LET n == CHOOSE n \in (0 - 1)..2 : Writes(k, n)
              IN IF /\ node.key_type.minimum # None => n >= node.key_type.minimum[1]
                    /\ node.key_type.maximum # None => n <= node.key_type.maximum[1]
                   THEN result = Ok
                   ELSE /\ result.tag = "Err"
                        /\ result.path = EntryPath(ROOT, k)
                        /\ result.error.kind = "Generic"
         ELSE result = Err(EntryPath(ROOT, k),
                           Generic([fmt |-> "The Key `{}` can't be converted to an Integer",
                                    arg |-> k]))

\* The key -1 has been parsed and rejected by a minimum of 0
C14_Witness ==
  /\ MapCalled /\ node.key_type.kind = "Integer" /\ OneValidEntry
  /\ node.key_type.minimum = Some(0)
  /\ data.entries[1][1] = <<"-", "1">>
  /\ result.tag = "Err"

\* C15: with a Date key type, a key passes exactly when it has the shape
\* of a date; another key fails with the key's own message, which is not
\* the message a Date node gives for a value
C15_DateKeys ==
  (MapCalled /\ node.key_type.kind = "Date" /\ OneValidEntry) =>
    LET k == data.entries[1][1]
    IN IF HasDateShape(k)
         THEN result = Ok
         ELSE /\ result = Err(EntryPath(ROOT, k),
                              Generic([fmt |-> "The Key `{}` can't be converted to a Date",
                                       arg |-> k]))
              /\ result.error # validate(Date, DString(k)).error

\* The key 2020/10/15 has been rejected
C15_Witness ==
  /\ MapCalled /\ node.key_type.kind = "Date" /\ OneValidEntry
  /\ data.entries[1][1] = SlashDate
  /\ result.tag = "Err"

UnsupportedKinds == {"Object", "List", "Map", "Decimal", "Nullable"}

UnsupportedMessage ==
  [fmt |-> "Usupported Map's KeyValue conversion. [Supported types : String, Integer, Bool, Date(YYYY-MM-DD) ]",
   arg |-> <<>>]

\* C16 as stated: with a key type of an unsupported kind, every document
\* Object fails with the unsupported-key-type message
C16_UnsupportedAlwaysFails ==
  (MapCalled /\ node.key_type.kind \in UnsupportedKinds) =>
    /\ result.tag = "Err"
    /\ result.error = Generic(UnsupportedMessage)

\* C16: with a key type of an unsupported kind, the empty Object passes,
\* and a document with entries fails at its first entry: with the value's
\* error when the value fails, else with the unsupported-key-type message
C16_UnsupportedFailsFirstEntry ==
  (MapCalled /\ node.key_type.kind \in UnsupportedKinds) =>
    IF data.entries = <<>> THEN result = Ok
    ELSE LET e == data.entries[1]
             v == check(node.value_type, e[2], EntryPath(ROOT, e[1]))
         IN IF v.tag = "Err" THEN result = v
            ELSE result = Err(EntryPath(ROOT, e[1]), Generic(UnsupportedMessage))

\* A document with a valid first entry has failed with the unsupported
\* message
C16_Witness ==
  /\ MapCalled /\ node.key_type.kind \in UnsupportedKinds
  /\ data.entries # <<>>
  /\ result.tag = "Err"
  /\ result.error = Generic(UnsupportedMessage)


-----------------------------------------------------------------------------
(* String nodes whose pattern does not compile *)

\* [a-z : Regex::new returns Err
ReUnclosed == [valid |-> FALSE, start |-> FALSE, classes |-> <<>>, end |-> FALSE]

MalformedNodes ==
  {String(Some(ReUnclosed), M, m) : M \in Opt(LenBounds), m \in Opt(LenBounds)}

\* A String node on its own and under each container, with a document of
\* the same build
UnderContainers(n, d) ==
  {<<n, d>>,
   <<Nullable(n), d>>,
   <<Object(<<<<KeyA, n>>>>), DObject(<<<<KeyA, d>>>>)>>,
   <<List(n), DList(<<d>>)>>,
   <<Map(AnyString, n), DObject(<<<<KeyA, d>>>>)>>,
   <<Map(n, Boolean), DObject(<<<<KeyA, DBoolean(TRUE)>>>>)>>}

MalformedInputs ==
  UNION {UnderContainers(n, d) :
           n \in MalformedNodes \cup {AnyString, String(Some(ReLower), None, None)},
           d \in {DString(s) : s \in Strings} \cup {Null, DBoolean(TRUE)}}

InitMalformed == InitOn(MalformedInputs)

\* validate with patterns that compile and patterns that do not
SpecMalformed == InitMalformed /\ [][Next]_vars

-----------------------------------------------------------------------------
(* Claims on patterns that do not compile, checked under SpecMalformed *)

\* C17: validate returns, with Ok or with an error value, for every node
\* and every document; a String node with a malformed pattern yields an
\* error value when a string is checked against it
C17_NeverPanics ==
  called => result.tag \in {"Ok", "Err"}


-----------------------------------------------------------------------------
(* The Object arm on the worker pool: into_par_iter().map(..).collect() runs
   the closure once per field on whichever worker takes it, stores each
   result at the field's position in res, and returns when all have run *)

\* join that reduces the results in the order the workers finished
join_completion_order(results, completion) ==
  Collect([i \in 1..Len(completion) |-> results[completion[i]]])

\* res.into_iter().collect::<Result<Vec<()>, _>>()
join(results, completion) == Collect(results)

\* validate reaches the (Object, Object) arm and hands the fields to the pool
Fork ==
  /\ ~called /\ ~forked
  /\ node.kind = "Object" /\ data.kind = "Object"
  /\ forked' = TRUE
  /\ res' = [i \in 1..Len(node.fields) |-> NotCalled]
  /\ UNCHANGED <<node, data, called, result, schema, compiled, started, finished>>

\* A worker takes field i
WorkerStart(i) ==
  /\ forked /\ ~called
  /\ i \notin started
  /\ started' = started \cup {i}
  /\ UNCHANGED <<node, data, called, result, schema, compiled, forked, res, finished>>

\* The closure returns for field i
WorkerFinish(i) ==
  /\ forked /\ ~called
  /\ i \in started /\ res[i] = NotCalled
  /\ res' = [res EXCEPT ![i] = check_field(node.fields[i][1], node.fields[i][2],
                                           data.entries, ROOT)]
  /\ finished' = Append(finished, i)
  /\ UNCHANGED <<node, data, called, result, schema, compiled, forked, started>>

\* Join that also returns as soon as one closure has returned an error
JoinOnFirstError ==
  /\ forked /\ ~called
  /\ \/ \A i \in 1..Len(res) : res[i] # NotCalled
     \/ \E i \in 1..Len(res) : res[i].tag = "Err"
  /\ called' = TRUE
  /\ result' = join(SelectSeq(res, LAMBDA r : r # NotCalled), finished)
  /\ UNCHANGED <<node, data, schema, compiled, forked, started, res, finished>>

\* Every closure has returned: the results are reduced and validate returns
Join ==
  /\ forked /\ ~called
  /\ \A i \in 1..Len(res) : res[i] # NotCalled
  /\ called' = TRUE
  /\ result' = join(res, finished)
  /\ UNCHANGED <<node, data, schema, compiled, forked, started, res, finished>>

NextPool ==
  \/ Fork
  \/ \E i \in 1..Len(node.fields) : WorkerStart(i)
  \/ \E i \in 1..Len(node.fields) : WorkerFinish(i)
  \/ Join

KeyB == <<"b">>

PoolLeafNodes == {Boolean, Integer(Some(0), Some(MaxNum))}

PoolValues == {DBoolean(TRUE), DInteger(0)}

Absent == [kind |-> "Absent"]

\* Objects of up to three fields in every iteration order
PoolNodes == {Object(fs) : fs \in FieldSeqs({KeyA, Key1, KeyB}, PoolLeafNodes)}

\* Documents where each of the three keys is absent or holds a value
PoolDocuments ==
  {DObject(SelectSeq(<<<<KeyA, a>>, <<Key1, b>>, <<KeyB, c>>>>, LAMBDA e : e[2] # Absent)) :
     a \in PoolValues \cup {Absent}, b \in PoolValues \cup {Absent},
     c \in PoolValues \cup {Absent}}

InitPool == InitOn(PoolNodes \X PoolDocuments)

\* validate of an Object, its field checks taken and finished in any order
SpecPool == InitPool /\ [][NextPool]_vars

-----------------------------------------------------------------------------
(* Claims on the worker pool, checked under SpecPool *)

\* What the check of field i of the schema returns
FieldOutcome(i) ==
  check_field(node.fields[i][1], node.fields[i][2], data.entries, ROOT)

FailingFields == {i \in 1..Len(node.fields) : FieldOutcome(i).tag = "Err"}

\* C18: whatever order the workers took and finished the fields in, the
\* Object's result is Ok when no field fails and else the error of the
\* first failing field in the schema map's iteration order, which is what
\* validate computes from node and data alone
C18_PoolOrderIrrelevant ==
  called =>
    /\ FailingFields = {} => result = Ok
    /\ \A i \in FailingFields :
         (\A j \in FailingFields : i <= j) => result = FieldOutcome(i)
    /\ result = validate(node, data)

\* Two fields fail with different errors, the later one finished first,
\* and the earlier one's error is the result
C18_Witness ==
  /\ called
  /\ \E i, j \in FailingFields :
       /\ i < j
       /\ FieldOutcome(i) # FieldOutcome(j)
       /\ \E m, n \in 1..Len(finished) : m < n /\ finished[m] = j /\ finished[n] = i
       /\ result = FieldOutcome(i)


-----------------------------------------------------------------------------
(* serde_yaml::Value: the definition as the YAML parser hands it over *)

\* A string scalar, as its characters
YString(s) == [y |-> "String", str |-> s]

\* A string scalar that holds the text of a pattern, with the pattern's parse
YPattern(text, re) == [y |-> "String", str |-> text, pattern |-> re]

\* A number scalar: an integer (as_i64 is Some) or a float (as_i64 is None)
YInt(n) == [y |-> "Number", int |-> TRUE, num |-> n]

YFloat(x) == [y |-> "Number", int |-> FALSE, num |-> x]

YNull == [y |-> "Null"]

\* A mapping: its entries, key and value, in the order of the document
YMapping(pairs) == [y |-> "Mapping", pairs |-> pairs]

\* Value::get(key) and Mapping::get(key) with a string key
YGet(v, key) ==
  IF v.y = "Mapping" /\ \E i \in 1..Len(v.pairs) : v.pairs[i][1] = YString(key)
    THEN Some(v.pairs[CHOOSE i \in 1..Len(v.pairs) : v.pairs[i][1] = YString(key)][2])
    ELSE None

\* if let Some(Value::Number(n)) = inner.get(key) { n.as_i64() } else { None }
I64At(inner, key) ==
  LET g == YGet(inner, key)
  IN IF g # None /\ g[1].y = "Number" /\ g[1].int THEN Some(g[1].num) ELSE None

\* if let Some(Value::Number(n)) = inner.get(key) { n.as_f64() } else { None }
F64At(inner, key) ==
  LET g == YGet(inner, key)
  IN IF g # None /\ g[1].y = "Number" THEN Some(g[1].num) ELSE None

\* str::contains with a one-character pattern
Contains(s, c) == \E i \in 1..Len(s) : s[i] = c

\* str::replace(c, ""): every occurrence of c is removed
Replace(s, c) == SelectSeq(s, LAMBDA x : x # c)

Root == <<"R", "o", "o", "t">>

PlusType == <<"+", "t", "y", "p", "e">>

PlusRegex == <<"+", "r", "e", "g", "e", "x">>

PlusMax == <<"+", "m", "a", "x">>

PlusMin == <<"+", "m", "i", "n">>

PlusValueType == <<"+", "V", "a", "l", "u", "e", "T", "y", "p", "e">>

PlusKeyType == <<"+", "K", "e", "y", "T", "y", "p", "e">>

TagObject == <<"O", "b", "j", "e", "c", "t">>

TagString == <<"S", "t", "r", "i", "n", "g">>

TagInteger == <<"I", "n", "t", "e", "g", "e", "r">>

TagDecimal == <<"D", "e", "c", "i", "m", "a", "l">>

TagFloat == <<"F", "l", "o", "a", "t">>

TagList == <<"L", "i", "s", "t">>

TagMap == <<"M", "a", "p">>

TagBool == <<"B", "o", "o", "l">>

TagBoolean == <<"B", "o", "o", "l", "e", "a", "n">>

TagDate == <<"D", "a", "t", "e">>

MaxLengthWords ==
  <<<<"+", "M", "a", "x", "L", "e", "n", "g", "t", "h">>,
    <<"+", "m", "a", "x", "L", "e", "n", "g", "t", "h">>,
    <<"+", "m", "a", "x", "_", "l", "e", "n", "g", "t", "h">>>>

MinLengthWords ==
  <<<<"+", "M", "i", "n", "L", "e", "n", "g", "t", "h">>,
    <<"+", "m", "i", "n", "L", "e", "n", "g", "t", "h">>,
    <<"+", "m", "i", "n", "_", "l", "e", "n", "g", "t", "h">>>>

-----------------------------------------------------------------------------
(* AS3Validator::from and build_from_yaml *)

\* Ok(validator)
COk(v) == [tag |-> "Ok", value |-> v]

\* Err(format!(fmt, arg)); the backquotes of the messages are left out
ErrString(fmt, arg) == [tag |-> "Err", msg |-> [fmt |-> fmt, arg |-> arg]]

RECURSIVE build_from_yaml(_, _)

\* The ("Object", Mapping) arm: every entry but `+type` is a field; the
\* key's as_str() and the field's build_from_yaml are unwrapped
build_object(inner, path) ==
  LET fields == SelectSeq(inner.pairs, LAMBDA p : p[1] # YString(PlusType))
      built == [i \in 1..Len(fields) |->
                  IF fields[i][1].y # "String" THEN Panic
                  ELSE build_from_yaml(fields[i][2], temp_path(path, fields[i][1].str))]
  IN IF \E i \in 1..Len(fields) : built[i].tag # "Ok" THEN Panic
     ELSE COk(Object([i \in 1..Len(fields) |-> <<fields[i][1].str, built[i].value>>]))

\* length_option that takes the first spelling present and never fails
length_option_first_wins(inner, words, fmt) ==
  LET x == SelectSeq(words, LAMBDA key_word : YGet(inner, key_word) # None)
  IN COk(IF x # <<>> THEN I64At(inner, x[1]) ELSE None)

\* The length option of the String arm: at most one of its spellings
length_option(inner, words, fmt) ==
  LET x == SelectSeq(words, LAMBDA key_word : YGet(inner, key_word) # None)
  IN IF Len(x) > 1 THEN ErrString(fmt, x)
     ELSE COk(IF x # <<>> THEN I64At(inner, x[1]) ELSE None)

\* The ("String", Mapping) arm
build_string(inner) ==
  LET g == YGet(inner, PlusRegex)
      regex == IF g # None /\ g[1].y = "String" THEN Some(g[1].pattern) ELSE None
      max_length ==
        length_option(inner, MaxLengthWords,
          "Multiple field indicating the maximum length of a String have been passed : ({})")
      min_length ==
        length_option(inner, MinLengthWords,
          "Multiple field indicating the minimum length of a String have been passed : ({})")
  IN IF max_length.tag = "Err" THEN max_length
     ELSE IF min_length.tag = "Err" THEN min_length
     ELSE COk(String(regex, max_length.value, min_length.value))

\* The ("List", Mapping) arm: the element type's build_from_yaml is unwrapped
build_list(yaml_config, path) ==
  LET value_type == YGet(yaml_config, PlusValueType)
  IN IF value_type = None
       THEN ErrString("List defined without the required +ValueType property", <<>>)
       ELSE LET list_value_type == build_from_yaml(value_type[1], path)
            IN IF list_value_type.tag # "Ok" THEN Panic
               ELSE COk(List(list_value_type.value))

\* The ("Map", Mapping) arm: the errors of both types are returned
build_map(yaml_config, path) ==
  LET key_type == YGet(yaml_config, PlusKeyType)
      value_type == YGet(yaml_config, PlusValueType)
  IN IF key_type = None \/ value_type = None
       THEN ErrString("Map MUST have the +KeyType and +ValueType fields [ {} ] ", path)
       ELSE LET k == build_from_yaml(key_type[1], path \o Arrow \o PlusKeyType)
                v == build_from_yaml(value_type[1], path \o Arrow \o PlusKeyType)
            IN IF k.tag # "Ok" THEN k
               ELSE IF v.tag # "Ok" THEN v
               ELSE COk(Map(k.value, v.value))

\* build_abbreviated that also takes the tags Boolean and Float
build_abbreviated_with_aliases(type_def, validator_type) ==
  CASE type_def = TagString -> COk(String(None, None, None))
    [] type_def = TagInteger -> COk(Integer(None, None))
    [] type_def \in {TagDecimal, TagFloat} -> COk(Decimal(None, None))
    [] type_def = TagDate -> COk(Date)
    [] type_def \in {TagBool, TagBoolean} -> COk(Boolean)
    [] OTHER -> ErrString(" {validator_type} can't be used without the +type property",
                          validator_type)

\* The (type_def, String) arm: the abbreviated syntax
build_abbreviated(type_def, validator_type) ==
  CASE type_def = TagString -> COk(String(None, None, None))
    [] type_def = TagInteger -> COk(Integer(None, None))
    [] type_def = TagDecimal -> COk(Decimal(None, None))
    [] type_def = TagDate -> COk(Date)
    [] type_def = TagBool -> COk(Boolean)
    [] OTHER -> ErrString(" {validator_type} can't be used without the +type property",
                          validator_type)

\* match (validator_type.replace("?", "").as_str(), yaml_config)
build_dispatch(type_def, validator_type, yaml_config, path) ==
  CASE yaml_config.y = "Mapping" /\ type_def = TagObject -> build_object(yaml_config, path)
    [] yaml_config.y = "Mapping" /\ type_def = TagString -> build_string(yaml_config)
    [] yaml_config.y = "Mapping" /\ type_def = TagDate -> COk(Date)
    [] yaml_config.y = "Mapping" /\ type_def = TagInteger ->
         COk(Integer(I64At(yaml_config, PlusMin), I64At(yaml_config, PlusMax)))
    [] yaml_config.y = "Mapping" /\ type_def \in {TagDecimal, TagFloat} ->
         COk(Decimal(F64At(yaml_config, PlusMin), F64At(yaml_config, PlusMax)))
    [] yaml_config.y = "Mapping" /\ type_def = TagList -> build_list(yaml_config, path)
    [] yaml_config.y = "Mapping" /\ type_def = TagMap -> build_map(yaml_config, path)
    [] yaml_config.y = "Mapping" /\ type_def \in {TagBool, TagBoolean} -> COk(Boolean)
    [] yaml_config.y = "String" ->
         build_abbreviated(type_def, validator_type)
    [] OTHER -> ErrString(" {validator_type} is an unsupported type", validator_type)

\* wrap_nullable that never wraps
wrap_nullable_never(nullable, validator) == validator

\* if nullable { Nullable(Box::new(validator)) } else { validator }
wrap_nullable(nullable, validator) ==
  IF nullable THEN Nullable(validator) ELSE validator

\* The node under a type tag: nullable is read off the tag, the tag without
\* its question marks picks the arm, and the arm's node is wrapped
build_typed(validator_type, yaml_config, path) ==
  LET nullable == Contains(validator_type, "?")
      validator == build_dispatch(Replace(validator_type, "?"), validator_type,
                                  yaml_config, path)
  IN IF validator.tag = "Ok"
       THEN COk(wrap_nullable(nullable, validator.value))
       ELSE validator

\* build_from_yaml: the type tag is the `+type` property when that is a
\* string, else the node itself when it is a string
build_from_yaml(yaml_config, path) ==
  LET t == YGet(yaml_config, PlusType)
  IN IF t # None /\ t[1].y = "String" THEN build_typed(t[1].str, yaml_config, path)
     ELSE IF yaml_config.y = "String" THEN build_typed(yaml_config.str, yaml_config, path)
     ELSE ErrString("Type definition missing for {path} ", path)

\* AS3Validator::from
from(yaml_config) ==
  IF yaml_config.y # "Mapping"
    THEN ErrString("Definition must start with a Yaml Mapping", <<>>)
  ELSE IF YGet(yaml_config, Root) = None
    THEN ErrString("Missing root word {root_word} from definition", Root)
  ELSE build_from_yaml(YGet(yaml_config, Root)[1], Root)


-----------------------------------------------------------------------------
(* The definition is compiled, then a document is validated against it *)

RECURSIVE IterationOrders(_)

\* The nodes a built node stands for: the fields of an Object are collected
\* into a HashMap, whose iteration order is not the definition's
IterationOrders(n) ==
  CASE n.kind = "Object" ->
         LET len == Len(n.fields)
             inner == [i \in 1..len |-> IterationOrders(n.fields[i][2])]
         IN {Object([i \in 1..len |-> <<n.fields[p[i]][1], vs[p[i]]>>]) :
               p \in Permutations(1..len),
               vs \in {f \in [1..len -> UNION {inner[i] : i \in 1..len}] :
                         \A i \in 1..len : f[i] \in inner[i]}}
    [] n.kind = "List" -> {List(m) : m \in IterationOrders(n.items_type)}
    [] n.kind = "Map" ->
         {Map(k, v) : k \in IterationOrders(n.key_type), v \in IterationOrders(n.value_type)}
    [] n.kind = "Nullable" -> {Nullable(m) : m \in IterationOrders(n.inner)}
    [] OTHER -> {n}

\* AS3Validator::from on the definition
Compile ==
  /\ schema # NoSchema /\ compiled = NotCalled
  /\ compiled' = from(schema)
  /\ IF compiled'.tag = "Ok"
       THEN node' \in IterationOrders(compiled'.value)
       ELSE node' = node
  /\ UNCHANGED <<data, called, result, schema, forked, started, res, finished>>

NextCompile == Compile \/ Validate

\* The text of ReLower
ReLowerText == <<"[", "a", "-", "z", "]">>

TagText == <<"T", "e", "x", "t">>

AllTags ==
  {TagObject, TagString, TagInteger, TagDecimal, TagFloat, TagList, TagMap, TagBool,
   TagBoolean, TagDate, TagText}

\* Every tag, and every tag with a trailing question mark
TagForms == AllTags \cup {t \o <<"?">> : t \in AllTags}

\* +type: t
TypePair(t) == <<YString(PlusType), YString(t)>>

\* name: Integer
Entry(name, v) == <<YString(name), v>>

\* Node definitions that compile, and ones that do not: no type tag, an
\* unsupported tag, a List without +ValueType, a Map without +ValueType
GoodDefs == {YString(TagInteger), YString(TagBool \o <<"?">>), YMapping(<<TypePair(TagDate)>>)}

FaultyDefs ==
  {YMapping(<<>>), YInt(1), YString(TagText), YMapping(<<TypePair(TagText)>>),
   YMapping(<<TypePair(TagList)>>),
   YMapping(<<TypePair(TagMap), Entry(PlusKeyType, YString(TagString))>>)}

\* The properties and fields that follow +type in a mapping
PropertySeqs ==
  {<<>>,
   <<Entry(PlusMin, YInt(0))>>,
   <<Entry(PlusMax, YInt(MaxNum)), Entry(PlusMin, YFloat(0))>>,
   <<Entry(PlusRegex, YPattern(ReLowerText, ReLower)), Entry(MaxLengthWords[1], YInt(MaxStrLen))>>,
   <<Entry(MaxLengthWords[1], YInt(1)), Entry(MaxLengthWords[3], YInt(2))>>,
   <<Entry(MinLengthWords[2], YInt(1)), Entry(PlusRegex, YInt(1))>>,
   <<Entry(KeyA, YString(TagInteger)), Entry(Key1, YString(TagBool \o <<"?">>))>>,
   <<<<YInt(1), YString(TagBool)>>>>} \cup
  {<<Entry(PlusValueType, d)>> : d \in GoodDefs \cup FaultyDefs} \cup
  {<<Entry(PlusKeyType, k), Entry(PlusValueType, d)>> :
     k \in {YString(TagString), YString(TagText)}, d \in GoodDefs \cup FaultyDefs} \cup
  {<<Entry(KeyA, d)>> : d \in GoodDefs \cup FaultyDefs}

\* Abbreviated and canonical node definitions, and mappings with no +type
NodeDefs ==
  {YString(t) : t \in TagForms} \cup
  {YMapping(<<TypePair(t)>> \o ps) : t \in TagForms, ps \in PropertySeqs} \cup
  {YMapping(ps) : ps \in PropertySeqs} \cup
  {YInt(1), YNull}

\* Definitions with a Root, without one, and ones that are no mapping
Schemas ==
  {YMapping(<<Entry(Root, d)>>) : d \in NodeDefs} \cup
  {YMapping(<<Entry(KeyA, d), Entry(Root, d)>>) : d \in GoodDefs} \cup
  {YMapping(<<>>), YMapping(<<Entry(KeyA, YString(TagInteger))>>),
   YString(TagInteger), YNull, YInt(1)}

InitCompile ==
  /\ schema \in Schemas
  /\ data \in {Null, DBoolean(TRUE), DInteger(0), DObject(<<>>)}
  /\ node = NoNode
  /\ called = FALSE
  /\ result = NotCalled
  /\ compiled = NotCalled
  /\ PoolIdle

\* from on a definition, then validate of a document against the node
SpecCompile == InitCompile /\ [][NextCompile]_vars


-----------------------------------------------------------------------------
(* Claims on compilation, checked under SpecCompile *)

\* from has returned or aborted
Compiled == compiled # NotCalled

SupportedTags == AllTags \ {TagText}

\* The type tag a definition carries: its +type when that is a string,
\* itself when it is a string; None when it carries none
TagOfDef(d) ==
  IF YGet(d, PlusType) # None /\ YGet(d, PlusType)[1].y = "String"
    THEN Some(YGet(d, PlusType)[1].str)
  ELSE IF d.y = "String" THEN Some(d.str)
  ELSE None

\* A tag without its trailing question mark
BaseTag(t) == IF t # <<>> /\ t[Len(t)] = "?" THEN SubSeq(t, 1, Len(t) - 1) ELSE t

RECURSIVE Mistaken(_)

\* The definition holds one of the mistakes of a schema author: a node
\* with no type tag or an unsupported one, a List without +ValueType, a
\* Map without +KeyType or +ValueType, or such a node under an Object's
\* field, a List's +ValueType or a Map's types
Mistaken(d) ==
  \/ TagOfDef(d) = None
  \/ /\ TagOfDef(d) # None
     /\ LET t == BaseTag(TagOfDef(d)[1])
        IN \/ t \notin SupportedTags
           \/ /\ d.y = "Mapping" /\ t = TagList
              /\ \/ YGet(d, PlusValueType) = None
                 \/ Mistaken(YGet(d, PlusValueType)[1])
           \/ /\ d.y = "Mapping" /\ t = TagMap
              /\ \/ YGet(d, PlusValueType) = None
                 \/ YGet(d, PlusKeyType) = None
                 \/ Mistaken(YGet(d, PlusValueType)[1])
                 \/ Mistaken(YGet(d, PlusKeyType)[1])
           \/ /\ d.y = "Mapping" /\ t = TagObject
              /\ \E i \in 1..Len(d.pairs) :
                   d.pairs[i][1] # YString(PlusType) /\ Mistaken(d.pairs[i][2])

\* C19: from returns, with a node or with Err, for every definition, and
\* returns Err when the definition is no mapping, has no Root, or holds a
\* mistaken node at any depth
C19_MistakesAreErr ==
  Compiled =>
    /\ compiled.tag \in {"Ok", "Err"}
    /\ (\/ schema.y # "Mapping"
        \/ YGet(schema, Root) = None
        \/ Mistaken(YGet(schema, Root)[1])) => compiled.tag = "Err"

KindOfTag ==
  {<<TagObject, "Object">>, <<TagString, "String">>, <<TagInteger, "Integer">>,
   <<TagDecimal, "Decimal">>, <<TagFloat, "Decimal">>, <<TagList, "List">>,
   <<TagMap, "Map">>, <<TagBool, "Boolean">>, <<TagBoolean, "Boolean">>,
   <<TagDate, "Date">>}

\* The definition d with the tag t in place of its own
WithTag(d, t) ==
  IF d.y = "Mapping"
    THEN YMapping([i \in 1..Len(d.pairs) |->
                     IF d.pairs[i][1] = YString(PlusType) THEN TypePair(t) ELSE d.pairs[i]])
    ELSE YString(t)

\* The schema with the tag t on its Root node
WithRootTag(t) ==
  YMapping([i \in 1..Len(schema.pairs) |->
              IF schema.pairs[i][1] = YString(Root)
                THEN Entry(Root, WithTag(schema.pairs[i][2], t))
                ELSE schema.pairs[i]])

\* The Root node carries a supported tag, with or without a question mark
RootTagged ==
  /\ Compiled
  /\ schema.y = "Mapping" /\ YGet(schema, Root) # None
  /\ TagOfDef(YGet(schema, Root)[1]) # None
  /\ BaseTag(TagOfDef(YGet(schema, Root)[1])[1]) \in SupportedTags

RootTag == TagOfDef(YGet(schema, Root)[1])[1]

\* C20: a definition whose tag is T? compiles to Nullable(N), N being what
\* the same definition compiles to under the tag T; a definition whose tag
\* is T compiles to a node of T's own kind
C20_QuestionMarkWraps ==
  RootTagged =>
    IF RootTag # BaseTag(RootTag)
      THEN LET plain == from(WithRootTag(BaseTag(RootTag)))
           IN plain.tag = "Ok" => compiled = COk(Nullable(plain.value))
      ELSE compiled.tag = "Ok" => <<RootTag, compiled.value.kind>> \in KindOfTag

\* A canonical definition with properties and the tag Integer? has
\* compiled to Nullable of the Integer node with those properties
C20_Witness ==
  /\ RootTagged
  /\ RootTag = TagInteger \o <<"?">>
  /\ YGet(schema, Root)[1].y = "Mapping"
  /\ compiled = COk(Nullable(Integer(Some(0), None)))


\* The tags of the parameterless types that may stand alone
AbbreviableTags == {TagString, TagInteger, TagDecimal, TagDate, TagBool}

\* The Root node is a bare scalar string
RootIsScalar ==
  /\ Compiled
  /\ schema.y = "Mapping" /\ YGet(schema, Root) # None
  /\ YGet(schema, Root)[1].y = "String"

\* C21: the bare scalar T compiles to what the mapping {+type: T} with no
\* other property compiles to when T is String, Integer, Decimal, Date or
\* Bool, and a bare scalar that names anything else does not compile
C21_AbbreviatedIsCanonical ==
  (RootIsScalar /\ ~Contains(YGet(schema, Root)[1].str, "?")) =>
    LET T == YGet(schema, Root)[1].str
    IN IF T \in AbbreviableTags
         THEN /\ compiled.tag = "Ok"
              /\ compiled = from(YMapping(<<Entry(Root, YMapping(<<TypePair(T)>>))>>))
         ELSE compiled.tag = "Err"

\* The bare scalar Integer has compiled to the Integer node with no bounds
C21_Witness ==
  /\ RootIsScalar
  /\ YGet(schema, Root)[1].str = TagInteger
  /\ compiled = COk(Integer(None, None))


-----------------------------------------------------------------------------
(* AS3Validator::to_yaml_string: the node is serialised by its derived
   Serialize (an externally tagged enum under the serialize renames), and
   that JSON text is read and written again as YAML *)

NameRegex == <<"r", "e", "g", "e", "x">>

NameMaxLength == <<"m", "a", "x", "_", "l", "e", "n", "g", "t", "h">>

NameMinLength == <<"m", "i", "n", "_", "l", "e", "n", "g", "t", "h">>

NameMinimum == <<"m", "i", "n", "i", "m", "u", "m">>

NameMaximum == <<"m", "a", "x", "i", "m", "u", "m">>

NameKeyType == <<"k", "e", "y", "_", "t", "y", "p", "e">>

NameValueType == <<"v", "a", "l", "u", "e", "_", "t", "y", "p", "e">>

NameNullable == <<"N", "u", "l", "l", "a", "b", "l", "e">>

\* An Option<i64>: null or an integer
OptionInt(o) == IF o = None THEN YNull ELSE YInt(o[1])

\* An Option<f64>: null or a float
OptionFloat(o) == IF o = None THEN YNull ELSE YFloat(o[1])

\* An Option<String> holding a pattern: null or its text
OptionPattern(o) ==
  IF o = None THEN YNull
  ELSE YPattern(IF o[1] = ReLower THEN ReLowerText ELSE <<>>, o[1])

RECURSIVE to_yaml_string(_)

\* The YAML value of the text to_yaml_string returns
to_yaml_string(self) ==
  CASE self.kind = "Object" ->
         YMapping(<<Entry(TagObject,
           YMapping([i \in 1..Len(self.fields) |->
                       Entry(self.fields[i][1], to_yaml_string(self.fields[i][2]))]))>>)
    [] self.kind = "String" ->
         YMapping(<<Entry(TagString,
           YMapping(<<Entry(NameRegex, OptionPattern(self.regex)),
                      Entry(NameMaxLength, OptionInt(self.max_length)),
                      Entry(NameMinLength, OptionInt(self.min_length))>>))>>)
    [] self.kind = "Integer" ->
         YMapping(<<Entry(TagInteger,
           YMapping(<<Entry(NameMinimum, OptionInt(self.minimum)),
                      Entry(NameMaximum, OptionInt(self.maximum))>>))>>)
    [] self.kind = "Decimal" ->
         YMapping(<<Entry(TagDecimal,
           YMapping(<<Entry(NameMinimum, OptionFloat(self.minimum)),
                      Entry(NameMaximum, OptionFloat(self.maximum))>>))>>)
    [] self.kind = "List" ->
         YMapping(<<Entry(TagList, to_yaml_string(self.items_type))>>)
    [] self.kind = "Map" ->
         YMapping(<<Entry(TagMap,
           YMapping(<<Entry(NameKeyType, to_yaml_string(self.key_type)),
                      Entry(NameValueType, to_yaml_string(self.value_type))>>))>>)
    [] self.kind = "Boolean" -> YString(TagBool)
    [] self.kind = "Date" -> YString(TagDate)
    [] self.kind = "Nullable" ->
         YMapping(<<Entry(NameNullable, to_yaml_string(self.inner))>>)

-----------------------------------------------------------------------------
(* Claims on the round trip, checked under SpecCompile *)

\* C22: a node that a definition compiled to is serialised to a text that
\* compiles again, to an equal node
C22_RoundTrip ==
  (Compiled /\ compiled.tag = "Ok") =>
    LET again == from(to_yaml_string(compiled.value))
    IN /\ again.tag = "Ok"
       /\ again.value \in IterationOrders(compiled.value)


-----------------------------------------------------------------------------
(* String definitions with every choice of length properties *)

MaxLengthValues == {Absent, YInt(1), YInt(2), YFloat(1)}

MinLengthValues == {Absent, YInt(0)}

\* +type: String, then each spelling of each bound, present or not
AliasDefs ==
  {YMapping(<<TypePair(TagString)>> \o
            SelectSeq(<<<<YString(MaxLengthWords[1]), a>>, <<YString(MinLengthWords[1]), d>>,
                        <<YString(MaxLengthWords[2]), b>>, <<YString(MinLengthWords[2]), e>>,
                        <<YString(MaxLengthWords[3]), c>>, <<YString(MinLengthWords[3]), f>>>>,
                      LAMBDA p : p[2] # Absent)) :
     a \in MaxLengthValues, b \in MaxLengthValues, c \in MaxLengthValues,
     d \in MinLengthValues, e \in MinLengthValues, f \in MinLengthValues}

InitAliases ==
  /\ schema \in {YMapping(<<Entry(Root, d)>>) : d \in AliasDefs}
  /\ data \in {Null, DString(<<"a">>)}
  /\ node = NoNode
  /\ called = FALSE
  /\ result = NotCalled
  /\ compiled = NotCalled
  /\ PoolIdle

\* from on String definitions, then validate
SpecAliases == InitAliases /\ [][NextCompile]_vars

-----------------------------------------------------------------------------
(* Claims on the length properties, checked under SpecAliases *)

\* The spellings among words that the Root definition carries
PresentAmong(words) ==
  {i \in 1..Len(words) : YGet(YGet(schema, Root)[1], words[i]) # None}

\* What the claim says the bound is, given the spellings present: unset for
\* none, the value of the only one when that is an integer
BoundIs(bound, words) ==
  /\ PresentAmong(words) = {} => bound = None
  /\ \A i \in PresentAmong(words) :
       LET v == YGet(YGet(schema, Root)[1], words[i])[1]
       IN (v.y = "Number" /\ v.int) => bound = Some(v.num)

\* C23: two or more spellings of the same bound make compilation fail with
\* an error that names them; otherwise the String node carries for each
\* bound the integer of its only spelling, and no bound when none is there
C23_OneAliasPerBound ==
  Compiled =>
    IF Cardinality(PresentAmong(MaxLengthWords)) > 1
      THEN /\ compiled.tag = "Err"
           /\ {compiled.msg.arg[i] : i \in 1..Len(compiled.msg.arg)} =
                {MaxLengthWords[i] : i \in PresentAmong(MaxLengthWords)}
    ELSE IF Cardinality(PresentAmong(MinLengthWords)) > 1
      THEN /\ compiled.tag = "Err"
           /\ {compiled.msg.arg[i] : i \in 1..Len(compiled.msg.arg)} =
                {MinLengthWords[i] : i \in PresentAmong(MinLengthWords)}
    ELSE /\ compiled.tag = "Ok"
         /\ compiled.value.kind = "String"
         /\ BoundIs(compiled.value.max_length, MaxLengthWords)
         /\ BoundIs(compiled.value.min_length, MinLengthWords)

\* Two spellings of the maximum have been refused
C23_Witness ==
  /\ Compiled
  /\ Cardinality(PresentAmong(MaxLengthWords)) = 2
  /\ compiled.tag = "Err"


-----------------------------------------------------------------------------
(* Claims on absent fields, checked under SpecTree *)

\* C24: a declared field f that the document lacks is reported as
\* MissingKey{key: f} at the Object's path extended with f, the path an
\* error inside the field would carry
C24_MissingKeyAtFieldPath ==
  (called /\ node.kind = "Object" /\ data.kind = "Object") =>
    \A i \in 1..Len(node.fields) :
      (/\ ~ContainsKey(data.entries, node.fields[i][1])
       /\ \A j \in 1..(i - 1) : FieldPasses(node, data, j))
      => result = Err(EntryPath(ROOT, node.fields[i][1]), MissingKey(node.fields[i][1]))


-----------------------------------------------------------------------------
(* String nodes with signed length bounds, strings with two-byte characters *)

\* Bounds a schema can set: an i64, negative ones included
SignedLenBounds == (0 - 1)..(MaxStrLen + 1)

LengthNodes ==
  {String(None, M, m) : M \in Opt(SignedLenBounds), m \in Opt(SignedLenBounds)}

\* Strings of one-byte and two-byte characters
MixedStrings == SeqsUpTo({"a", "U+00E9"}, MaxStrLen)

InitLength == InitOn(LengthNodes \X {DString(str) : str \in MixedStrings})

\* validate of a string against a String node with length bounds only
SpecLength == InitLength /\ [][Next]_vars

-----------------------------------------------------------------------------
(* Claims on the length of a string, checked under SpecLength *)

StringCalled == called /\ node.kind = "String" /\ data.kind = "String"

\* C25: a string of n characters passes the bounds that are set exactly
\* when min_length <= n <= max_length, whatever the bytes of its
\* characters, and a failure reports n (bounds of zero and more)
C25_LengthInCharacters ==
  (/\ StringCalled
   /\ node.min_length # None => node.min_length[1] >= 0
   /\ node.max_length # None => node.max_length[1] >= 0) =>
    LET n == Len(data.string)
    IN /\ result = Ok <=>
            /\ node.min_length # None => node.min_length[1] <= n
            /\ node.max_length # None => n <= node.max_length[1]
       /\ result.tag = "Err" => result.error.current_lenght = n

\* C30: the length checks are the signed comparisons length < min_length
\* and length > max_length: a minimum of zero or less never fails a
\* string, and a maximum below zero fails every string that passes the
\* minimum, with MaximumString
C30_SignedBounds ==
  StringCalled =>
    /\ (node.min_length # None /\ node.min_length[1] <= 0) =>
         ~(result.tag = "Err" /\ result.error.kind = "MinimumString")
    /\ (/\ node.max_length # None /\ node.max_length[1] < 0
        /\ node.min_length # None => node.min_length[1] <= 0) =>
         /\ result.tag = "Err"
         /\ result.error.kind = "MaximumString"

-----------------------------------------------------------------------------
(* Claims on cancellation, checked under SpecPool *)

\* C26: the Object's result is reduced only after every declared field's
\* check has run and left its result in the list, and while the checks
\* run a field that has failed stops no field that has not yet been taken
\* or has not yet finished
C26_NoCancellation ==
  /\ called =>
       /\ Len(res) = Len(node.fields)
       /\ \A i \in 1..Len(res) : res[i] # NotCalled
       /\ {finished[m] : m \in 1..Len(finished)} = 1..Len(node.fields)
  /\ (forked /\ ~called) =>
       \A i \in 1..Len(node.fields) :
         /\ i \notin started => ENABLED WorkerStart(i)
         /\ (i \in started /\ res[i] = NotCalled) => ENABLED WorkerFinish(i)

\* The first field to finish failed, and the two others finished after it
\* and left their results
C26_Witness ==
  /\ called
  /\ Len(finished) = 3
  /\ res[finished[1]].tag = "Err"
  /\ res[finished[2]] = Ok
  /\ res[finished[3]].tag = "Err"


-----------------------------------------------------------------------------
(* Claims on what validate leaves behind, checked under SpecTree *)

\* C27: a call of validate leaves the node and the document as they were,
\* and the path string it was started with holds what it held before:
\* no field, entry or element has added a segment to it
C27_InputsUnchanged ==
  [][(called' /\ ~called) =>
       /\ node' = node
       /\ data' = data
       /\ path_after(node, data, ROOT) = ROOT]_vars

\* An error two levels down carries a path of three segments, and the path
\* the call started with is still ROOT
C27_Witness ==
  /\ called
  /\ result.tag = "Err"
  /\ Len(result.path) = Len(ROOT) + 2 * (Len(Arrow) + 1)
  /\ path_after(node, data, ROOT) = ROOT


-----------------------------------------------------------------------------
(* Claims on Nullable fields of an Object, checked under SpecTree *)

\* C28: Nullable does not make a field of an Object optional. When the
\* document lacks a field declared Nullable, and no field before it fails,
\* the result is MissingKey{key: field}; when the field is there and holds
\* Null, the check of that field passes, and so does the Object when every
\* other field passes.
C28_NullableFieldStillRequired ==
  called /\ node.kind = "Object" /\ data.kind = "Object" =>
    \A i \in 1..Len(node.fields) :
      node.fields[i][2].kind = "Nullable" =>
        /\ /\ ~ContainsKey(data.entries, node.fields[i][1])
           /\ \A j \in 1..(i - 1) : FieldPasses(node, data, j)
           => /\ result.tag = "Err"
              /\ result.error = MissingKey(node.fields[i][1])
        /\ /\ ContainsKey(data.entries, node.fields[i][1])
           /\ Get(data.entries, node.fields[i][1]) = Null
           => /\ FieldPasses(node, data, i)
              /\ (\A j \in 1..Len(node.fields) : j # i => FieldPasses(node, data, j))
                   => result = Ok

\* The only field is Nullable and the document is the empty Object: MissingKey
C28_Witness ==
  /\ called
  /\ node.kind = "Object" /\ Len(node.fields) = 1
  /\ node.fields[1][2].kind = "Nullable"
  /\ data.kind = "Object" /\ data.entries = <<>>
  /\ result.tag = "Err" /\ result.error = MissingKey(node.fields[1][1])


-----------------------------------------------------------------------------
(* Type tags with question marks in every position *)

\* A tag as it is, with one trailing question mark, with a leading one,
\* with one after its first character, and with two trailing ones
QuestionForms(t) ==
  {t, t \o <<"?">>, <<"?">> \o t, <<t[1], "?">> \o Tail(t), t \o <<"?", "?">>}

QuestionTags == UNION {QuestionForms(t) : t \in SupportedTags}

\* Abbreviated definitions, and canonical ones that carry what a List and a
\* Map ask for
QuestionDefs ==
  {YString(t) : t \in QuestionTags} \cup
  {YMapping(<<TypePair(t), Entry(PlusKeyType, YString(TagString)),
              Entry(PlusValueType, YString(TagInteger))>> \o ps) :
     t \in QuestionTags, ps \in {<<>>, <<Entry(KeyA, YString(TagBool \o <<"?">>))>>}}

InitQuestion ==
  /\ schema \in {YMapping(<<Entry(Root, d)>>) : d \in QuestionDefs}
  /\ data \in {Null, DInteger(0), DBoolean(TRUE), DObject(<<>>)}
  /\ node = NoNode
  /\ called = FALSE
  /\ result = NotCalled
  /\ compiled = NotCalled
  /\ PoolIdle

\* from on definitions whose tag holds question marks, then validate
SpecQuestion == InitQuestion /\ [][NextCompile]_vars

-----------------------------------------------------------------------------
(* Claims on the place of the question mark, checked under SpecQuestion *)

\* The tag holds a question mark elsewhere than as its last character
Misplaced(t) == \E i \in 1..(Len(t) - 1) : t[i] = "?"

\* C29: a tag is taken as nullable only when its last character is the
\* question mark, and only that one character is stripped: a tag with a
\* question mark in any other place (?Integer, Int?eger, Integer??) is
\* refused with Err, and a node that compiles to Nullable carries a tag
\* that ends in the question mark
C29_OnlyFinalQuestionMark ==
  Compiled =>
    /\ Misplaced(RootTag) => compiled.tag = "Err"
    /\ (compiled.tag = "Ok" /\ compiled.value.kind = "Nullable") =>
         RootTag[Len(RootTag)] = "?"

====
